---- MODULE Spec2Model ----
(***************************************************************************)
(* The WebSocket bridge of voice-patient-backend: one browser connection   *)
(* (clientWs) paired with one upstream Live connection (vertexWs/geminiWs). *)
(* The repository holds five revisions of the bridge (src/server.js and     *)
(* src/unnamed/part_000, part_001, part_002, part_004); the variable        *)
(* `variant` says which one is running.  Sockets follow the `ws` library:   *)
(* send() on a socket that is not OPEN delivers nothing, close() on an OPEN *)
(* socket makes it CLOSING, close() on a CONNECTING socket aborts the       *)
(* handshake ('error' then 'close' are emitted), 'error' is followed by     *)
(* 'close', and messages may still arrive while a socket is CLOSING.        *)
(***************************************************************************)
EXTENDS Integers, Sequences, FiniteSets, TLC

VARIABLES
  variant,      \* which revision of the bridge runs
  projectSet,   \* PROJECT / VERTEX_PROJECT_ID / GEMINI_API_KEY is configured
  pc,           \* position of the wss.on("connection") handler
  clientState,  \* clientWs.readyState
  upState,      \* vertexWs / geminiWs: NONE until created, then its readyState
  vertexReady,  \* the readiness flag (vertexReady / geminiReady)
  upOut,        \* envelopes the bridge sent upstream, in order
  clientOut,    \* events delivered to the browser, in order
  upIn,         \* upstream messages handled so far, in order, each with
                \* whether the browser socket was OPEN then (history)
  downCount,    \* number of browser messages that arrived so far (history)
  closeMissed,  \* the browser's 'close' fired while no listener was registered
  clientCloses, \* number of times the bridge's clientWs.close() took effect
  downIn,       \* browser frames that passed the handler's two guards, in
                \* arrival order (history)
  upCloseCode,  \* the code the upstream 'close' event carried, 0 before it
                \* (history)
  setupThrew,   \* sending the setup envelope raised an exception (history)
  droppedLate,  \* a browser frame arrived with the readiness flag set and was
                \* not forwarded (history)
  cached,       \* part_000: the module-level model-discovery cache
  clock,        \* Date.now(), in minutes since the module was loaded
  call,         \* part_000: for each caller of refreshModelCache, where its
                \* call stands and the snapshot it was handed
  envModel,     \* process.env.GEMINI_MODEL, trimmed ("" when not set)
  listed,       \* the times at which listModels was requested (history)
  sentNotOpen   \* ws.send was called on a browser socket that was not
                \* OPEN (history)

vars == <<variant, projectSet, pc, clientState, upState, vertexReady, upOut,
          clientOut, upIn, downCount, closeMissed, clientCloses, downIn,
          upCloseCode, setupThrew, droppedLate, cached, clock, call, envModel,
          listed, sentNotOpen>>

\* The state of model discovery, and the state of the session.
cacheVars == <<cached, clock, call, envModel, listed>>
sessionVars == <<variant, projectSet, pc, clientState, upState, vertexReady, upOut,
                 clientOut, upIn, downCount, closeMissed, clientCloses, downIn,
                 upCloseCode, setupThrew, droppedLate, sentNotOpen>>

\* ---------------------------------------------------------------- bounds
MaxUpMsgs == 2
MaxDownMsgs == 2
MaxClock == 20
MaxListings == 2
MaxModels == 3

\* ------------------------------------------------------------- constants
OUTPUT_EXPECTED_RATE == 24000
DebugCap == 500
BodyCap == 2000
CacheLifetime == 10
INPUT_MIME == "audio/pcm;rate=16000"
DefaultOutMime == "audio/pcm;rate=24000"

CloseCodes == {1000, 1011}

Variants == {"server", "part_000", "part_001", "part_002", "part_004"}

\* The handler of wss.on("connection") is async and awaits (a bearer token, or
\* the model cache) before it creates the upstream socket and registers the
\* listeners.
AsyncHandler == variant \in {"server", "part_000", "part_004"}

\* Events go to the browser through wsSendSafe (a send guarded by readyState).
UsesSendSafe == variant \in {"part_000", "part_002"}

\* The upstream message handler has the `if (msg.error)` branch.
HandlesErrorField == variant \in {"part_000", "part_002"}

\* The 'open' listener sends the setup envelope inside try/catch.
CatchesSetupFailure == variant = "part_002"

\* The revision registers an 'unexpected-response' listener.
HasUnexpectedResponse == variant = "server"

\* The revision reads the snake_case names of the upstream envelope too.
ReadsSnakeCase == variant = "part_004"

\* The discovered model is preferred to the configured one.
ModelToUse_DiscoveredFirst ==
  IF call["conn"].data.chosen # "" THEN call["conn"].data.chosen ELSE envModel

\* The model the connection handler of part_000 uses: `envModel ||
\* data.chosen`, data being the snapshot refreshModelCache handed to it.
ModelToUse == IF envModel # "" THEN envModel ELSE call["conn"].data.chosen

\* The model identifier sent in the setup envelope and echoed in `ready`.
ModelId ==
  CASE variant = "server" -> "MODEL_ID"
    [] variant = "part_000" ->
         IF call["conn"].pc = "returned" THEN ModelToUse ELSE "modelToUse"
    [] variant = "part_004" -> "projects/P/locations/L/publishers/google/models/M"
    [] OTHER -> "DEFAULT_MODEL"

\* ------------------------------------------------------------ the sockets
\* ws.readyState as the code reads it.
ReadyStateOpen(s) == s = "OPEN"

\* clientWs.close(): OPEN -> CLOSING, otherwise nothing.
CloseClient(s) == IF s = "OPEN" THEN "CLOSING" ELSE s

\* vertexWs?.close(): nothing without a socket; a CONNECTING socket aborts its
\* handshake; an OPEN one starts the closing handshake.
CloseUpstream(s) ==
  CASE s = "OPEN" -> "CLOSING"
    [] s \in {"CONNECTING", "RESPONDING", "REJECTED"} -> "ABORTING"
    [] OTHER -> s

\* --------------------------------------------------------------- messages
Min(a, b) == IF a < b THEN a ELSE b

\* An event for the browser; every event has all the fields, unused ones empty.
Ev(type, text, mimeType, data) ==
  [type |-> type, text |-> text, mimeType |-> mimeType, data |-> data,
   model |-> "", outputRate |-> 0, raw |-> <<>>, code |-> 0]

\* The `ready` event names the model the cache holds at that moment.
ReadyEv_CurrentCache ==
  [Ev("ready", "", "", <<>>) EXCEPT
     !.model = IF envModel # "" THEN envModel ELSE cached.chosen,
     !.outputRate = OUTPUT_EXPECTED_RATE]

ReadyEv == [Ev("ready", "", "", <<>>) EXCEPT !.model = ModelId,
                                             !.outputRate = OUTPUT_EXPECTED_RATE]

\* The raw text is passed on whole, without slice(0, 500).
DebugEv_Uncut(raw) == [Ev("debug", "", "", <<>>) EXCEPT !.raw = raw]

DebugEv(raw) == [Ev("debug", "", "", <<>>) EXCEPT
                   !.raw = SubSeq(raw, 1, Min(Len(raw), DebugCap))]
\* The `closed` event; code is the close code its message text contains, -1
\* when it contains none: part_004 formats `e?.code` of its first listener
\* argument, which is the numeric code itself, so nothing is printed.
ClosedEv(code) == [Ev("closed", "Vertex WS closed", "", <<>>) EXCEPT
                     !.code = IF variant = "part_004" THEN -1 ELSE code]

TransportErrorEv == Ev("error", "WS error", "", <<>>)

\* The response body is passed on whole, without slice(0, 2000).
HandshakeErrorEv_WholeBody(status, body) ==
  [Ev("error", "WS handshake failed", "", <<>>) EXCEPT !.code = status, !.raw = body]

\* The `error` event of a rejected handshake: its message names the HTTP
\* status (code) and the first BodyCap characters of the response body (raw).
HandshakeErrorEv(status, body) ==
  [Ev("error", "WS handshake failed", "", <<>>) EXCEPT
     !.code = status, !.raw = SubSeq(body, 1, Min(Len(body), BodyCap))]

\* The HTTP responses that reject a handshake: a status and a body, empty,
\* short, or one character longer than the cap.
LongBody == [i \in 1..(BodyCap + 1) |-> i % 7]
Responses ==
  {[status |-> 401, body |-> <<>>], [status |-> 403, body |-> <<1, 2, 3>>],
   [status |-> 403, body |-> LongBody]}

ConfigErrorEv == Ev("error", "Missing configuration", "", <<>>)
ResumeErrorEv == Ev("error", "err.message", "", <<>>)
InbandErrorEv(detail) == Ev("error", detail, "", <<>>)
SetupErrorEv == Ev("error", "Failed to send setup", "", <<>>)

\* An upstream message as the handler sees it after safeJsonParse.  json is
\* "invalid" (JSON.parse throws), "falsy" (JSON.parse yields null, 0, false or
\* "") or "object".  An absent or falsy field is "" / FALSE / <<>>.  sc says
\* under which key the server content sits, inner in which casing its fields
\* (inputTranscription / modelTurn / turnComplete) are written.
Part(text, inline, data, mimeType, mime_type) ==
  [text |-> text, inline |-> inline, data |-> data, mimeType |-> mimeType,
   mime_type |-> mime_type]

Blank ==
  [json |-> "object", raw |-> <<>>, error |-> "", setupComplete |-> FALSE,
   sc |-> "none", inner |-> "camel", inputTx |-> "", outputTx |-> "",
   parts |-> <<>>, interrupted |-> FALSE, turnComplete |-> FALSE]
Content == [Blank EXCEPT !.sc = "serverContent"]

\* "QUJD", the base64 text of "ABC", as indexes into the base64 alphabet.
QUJD == <<16, 20, 9, 3>>

GarbageMsg == [Blank EXCEPT !.json = "invalid", !.raw = <<1, 2, 3>>]
ErrorMsg == [Blank EXCEPT !.error = "{code:3}"]
ErrorAckMsg == [Blank EXCEPT !.error = "{code:3}", !.setupComplete = TRUE]
AckMsg == [Blank EXCEPT !.setupComplete = TRUE]
TextPartMsg == [Content EXCEPT !.parts = <<Part("hello", "none", <<>>, "", "")>>]
AudioPartMsg == [Content EXCEPT !.parts = <<Part("", "inlineData", QUJD, "", "")>>]
TurnMsg == [Content EXCEPT !.inputTx = "hi", !.interrupted = TRUE, !.turnComplete = TRUE]

\* The upstream messages of a whole session.
UpMsgs == {GarbageMsg, ErrorMsg, AckMsg, AudioPartMsg, TurnMsg}

\* More upstream messages for a session that is READY.  A payload one character
\* longer than the debug cap; a payload JSON.parse turns into null; parts with
\* mimeType, with inline_data / mime_type, with no payload, with text and
\* payload, with neither; a message with every element, and the same with
\* setupComplete; and messages written with snake_case names throughout.
LongRaw == [i \in 1..(DebugCap + 1) |-> i % 7]
LongGarbageMsg == [Blank EXCEPT !.json = "invalid", !.raw = LongRaw]
NullMsg == [Blank EXCEPT !.json = "falsy", !.raw = <<4>>]
MimeAudioPartMsg ==
  [Content EXCEPT !.parts = <<Part("", "inlineData", QUJD, "audio/wav", "")>>]
SnakeInlinePartMsg ==
  [Content EXCEPT !.parts = <<Part("", "inline_data", QUJD, "", "audio/ogg")>>]
NoPayloadPartMsg ==
  [Content EXCEPT !.parts = <<Part("", "inlineData", <<>>, "audio/wav", ""),
                              Part("ok", "none", <<>>, "", "")>>]
BothPartMsg == [Content EXCEPT !.parts = <<Part("hello", "inlineData", QUJD, "", "")>>]
EmptyPartMsg == [Content EXCEPT !.parts = <<Part("", "none", <<>>, "", "")>>]
FullMsg ==
  [Content EXCEPT !.inputTx = "hi", !.outputTx = "yo",
                  !.parts = <<Part("hello", "inlineData", QUJD, "", ""),
                              Part("ok", "none", <<>>, "", "")>>,
                  !.interrupted = TRUE, !.turnComplete = TRUE]
AckContentMsg == [FullMsg EXCEPT !.setupComplete = TRUE]
SnakeTextPartMsg ==
  [Blank EXCEPT !.sc = "server_content", !.inner = "snake",
                !.parts = <<Part("hello", "none", <<>>, "", "")>>]
SnakeAudioPartMsg ==
  [Blank EXCEPT !.sc = "server_content", !.inner = "snake",
                !.parts = <<Part("", "inline_data", QUJD, "", "audio/ogg")>>]
SnakeTurnMsg ==
  [Blank EXCEPT !.sc = "server_content", !.inner = "snake", !.inputTx = "hi",
                !.outputTx = "yo", !.turnComplete = TRUE]

WideUpMsgs ==
  UpMsgs \cup
  {ErrorAckMsg, TextPartMsg, LongGarbageMsg, NullMsg, MimeAudioPartMsg,
   SnakeInlinePartMsg, NoPayloadPartMsg, BothPartMsg, EmptyPartMsg,
   FullMsg, AckContentMsg,
   SnakeTextPartMsg, SnakeAudioPartMsg, SnakeTurnMsg}

\* safeJsonParse(s) yields something truthy.
safeJsonParse(m) == m.json = "object"

\* The server content, and the fields the revision can read in it.
HasServerContent(m) ==
  m.sc = "serverContent" \/ (ReadsSnakeCase /\ m.sc = "server_content")
ReadsTranscription(m) ==
  \/ m.sc = "serverContent" /\ m.inner = "camel"
  \/ ReadsSnakeCase /\ m.sc = "server_content" /\ m.inner = "snake"
ReadsModelTurn(m) == HasServerContent(m) /\ (m.inner = "camel" \/ ReadsSnakeCase)

\* The media type the upstream gave is ignored.
PartEvents_DefaultMime(p) ==
  (IF p.text # "" THEN <<Ev("ai_text", p.text, "", <<>>)>> ELSE <<>>)
  \o (IF p.inline # "none" /\ p.data # <<>>
        THEN <<Ev("audio", "", DefaultOutMime, p.data)>>
        ELSE <<>>)

\* The payload is looked at only when the part has no text.
PartEvents_TextOrAudio(p) ==
  IF p.text # "" THEN <<Ev("ai_text", p.text, "", <<>>)>>
  ELSE IF p.inline # "none" /\ p.data # <<>>
    THEN <<Ev("audio", "",
              IF p.mimeType # "" THEN p.mimeType
              ELSE IF p.mime_type # "" THEN p.mime_type ELSE DefaultOutMime,
              p.data)>>
    ELSE <<>>

\* The events of one part: ai_text for a text, audio for an inline payload.
PartEvents(p) ==
  (IF p.text # "" THEN <<Ev("ai_text", p.text, "", <<>>)>> ELSE <<>>)
  \o (IF p.inline # "none" /\ p.data # <<>>
        THEN <<Ev("audio", "",
                  IF p.mimeType # "" THEN p.mimeType
                  ELSE IF p.mime_type # "" THEN p.mime_type ELSE DefaultOutMime,
                  p.data)>>
        ELSE <<>>)

RECURSIVE PartsEvents(_)
PartsEvents(parts) ==
  IF parts = <<>> THEN <<>> ELSE PartEvents(Head(parts)) \o PartsEvents(Tail(parts))

\* The message is put in one class and only the events of that class are sent.
ContentEvents_OneClass(m) ==
  IF ReadsTranscription(m) /\ (m.inputTx # "" \/ m.outputTx # "")
    THEN (IF m.inputTx # "" THEN <<Ev("transcript", m.inputTx, "", <<>>)>> ELSE <<>>)
         \o (IF m.outputTx # ""
               THEN <<Ev("ai_transcript", m.outputTx, "", <<>>)>> ELSE <<>>)
  ELSE IF ReadsModelTurn(m) /\ PartsEvents(m.parts) # <<>>
    THEN PartsEvents(m.parts)
  ELSE (IF HasServerContent(m) /\ m.interrupted
          THEN <<Ev("interrupted", "", "", <<>>)>> ELSE <<>>)
       \o (IF ReadsModelTurn(m) /\ m.turnComplete
             THEN <<Ev("turn_complete", "", "", <<>>)>> ELSE <<>>)

\* The turn markers are sent before the parts.
ContentEvents_MarkersFirst(m) ==
  (IF ReadsTranscription(m) /\ m.inputTx # ""
     THEN <<Ev("transcript", m.inputTx, "", <<>>)>> ELSE <<>>)
  \o (IF ReadsTranscription(m) /\ m.outputTx # ""
        THEN <<Ev("ai_transcript", m.outputTx, "", <<>>)>> ELSE <<>>)
  \o (IF HasServerContent(m) /\ m.interrupted
        THEN <<Ev("interrupted", "", "", <<>>)>> ELSE <<>>)
  \o (IF ReadsModelTurn(m) /\ m.turnComplete
        THEN <<Ev("turn_complete", "", "", <<>>)>> ELSE <<>>)
  \o (IF ReadsModelTurn(m) THEN PartsEvents(m.parts) ELSE <<>>)

\* The events of a parsed message that is neither an error nor an
\* acknowledgment: transcripts, parts, turn markers.
ContentEvents(m) ==
  (IF ReadsTranscription(m) /\ m.inputTx # ""
     THEN <<Ev("transcript", m.inputTx, "", <<>>)>> ELSE <<>>)
  \o (IF ReadsTranscription(m) /\ m.outputTx # ""
        THEN <<Ev("ai_transcript", m.outputTx, "", <<>>)>> ELSE <<>>)
  \o (IF ReadsModelTurn(m) THEN PartsEvents(m.parts) ELSE <<>>)
  \o (IF HasServerContent(m) /\ m.interrupted
        THEN <<Ev("interrupted", "", "", <<>>)>> ELSE <<>>)
  \o (IF ReadsModelTurn(m) /\ m.turnComplete
        THEN <<Ev("turn_complete", "", "", <<>>)>> ELSE <<>>)

\* The acknowledgment sets the flag but no `ready` event is sent.
UpstreamEvents_NoReady(m) ==
  IF ~safeJsonParse(m) THEN <<DebugEv(m.raw)>>
  ELSE IF HandlesErrorField /\ m.error # "" THEN <<InbandErrorEv(m.error)>>
  ELSE IF m.setupComplete THEN <<>>
  ELSE ContentEvents(m)

\* Content is held back until the readiness flag is set.
UpstreamEvents_Gated(m) ==
  IF ~safeJsonParse(m) THEN <<DebugEv(m.raw)>>
  ELSE IF HandlesErrorField /\ m.error # "" THEN <<InbandErrorEv(m.error)>>
  ELSE IF m.setupComplete THEN <<ReadyEv>>
  ELSE IF vertexReady THEN ContentEvents(m) ELSE <<>>

\* The setupComplete branch does not return: the content follows `ready`.
UpstreamEvents_AckFallsThrough(m) ==
  IF ~safeJsonParse(m) THEN <<DebugEv(m.raw)>>
  ELSE IF HandlesErrorField /\ m.error # "" THEN <<InbandErrorEv(m.error)>>
  ELSE (IF m.setupComplete THEN <<ReadyEv>> ELSE <<>>) \o ContentEvents(m)

\* What the upstream message handler sends to the browser for m.
UpstreamEvents(m) ==
  IF ~safeJsonParse(m) THEN <<DebugEv(m.raw)>>
  ELSE IF HandlesErrorField /\ m.error # "" THEN <<InbandErrorEv(m.error)>>
  ELSE IF m.setupComplete THEN <<ReadyEv>>
  ELSE ContentEvents(m)

\* Any message that parses is taken for the acknowledgment.
AcksSetup_AnyMessage(m) == safeJsonParse(m)

\* The handler reaches its `if (msg.setupComplete)` branch on m.
AcksSetup(m) ==
  safeJsonParse(m) /\ ~(HandlesErrorField /\ m.error # "") /\ m.setupComplete

\* The flag is assigned from each message instead of only being set.
ReadyAfter_Assigned(m, ready) == AcksSetup(m)

\* The readiness flag after the upstream message handler ran on m.
ReadyAfter(m, ready) == IF AcksSetup(m) THEN TRUE ELSE ready

\* ------------------------------------------------- browser -> upstream
\* The tail of one or two bytes is encoded without the '=' padding.
RECURSIVE toBase64_Unpadded(_)
toBase64_Unpadded(buf) ==
  IF Len(buf) = 0 THEN <<>>
  ELSE IF Len(buf) = 1 THEN
    <<buf[1] \div 4, (buf[1] % 4) * 16>>
  ELSE IF Len(buf) = 2 THEN
    <<buf[1] \div 4, (buf[1] % 4) * 16 + buf[2] \div 16, (buf[2] % 16) * 4>>
  ELSE
    <<buf[1] \div 4, (buf[1] % 4) * 16 + buf[2] \div 16,
      (buf[2] % 16) * 4 + buf[3] \div 64, buf[3] % 64>>
    \o toBase64_Unpadded(SubSeq(buf, 4, Len(buf)))

\* Buffer.from(buf).toString("base64"): three bytes become four sextets, a
\* tail of one or two bytes is padded with '=' (written 64).
RECURSIVE toBase64(_)
toBase64(buf) ==
  IF Len(buf) = 0 THEN <<>>
  ELSE IF Len(buf) = 1 THEN
    <<buf[1] \div 4, (buf[1] % 4) * 16, 64, 64>>
  ELSE IF Len(buf) = 2 THEN
    <<buf[1] \div 4, (buf[1] % 4) * 16 + buf[2] \div 16, (buf[2] % 16) * 4, 64>>
  ELSE
    <<buf[1] \div 4, (buf[1] % 4) * 16 + buf[2] \div 16,
      (buf[2] % 16) * 4 + buf[3] \div 64, buf[3] % 64>>
    \o toBase64(SubSeq(buf, 4, Len(buf)))

\* An envelope sent upstream; unused fields are empty.
Envelope(kind, schema, mimeType, data, text) ==
  [kind |-> kind, schema |-> schema, mimeType |-> mimeType, data |-> data,
   text |-> text, model |-> ""]

SetupMsg == [Envelope("setup", "setup", "", <<>>, "") EXCEPT !.model = ModelId]

AudioEnvelope(payload) ==
  Envelope("audio",
           IF variant = "part_004" THEN "realtime_input.media_chunks"
                                   ELSE "realtimeInput.audio",
           INPUT_MIME, toBase64(payload), "")
TextEnvelope(text) ==
  Envelope("text",
           IF variant = "part_004" THEN "client_content.turns"
                                   ELSE "realtimeInput.text",
           "", <<>>, text)
StopEnvelope ==
  Envelope("audioStreamEnd",
           IF variant = "part_004" THEN "realtime_input.audio_stream_end"
                                   ELSE "realtimeInput.audioStreamEnd",
           "", <<>>, "")

\* A browser frame: binary with its bytes, or text.  A text frame is JSON or
\* not; type is msg.type ("" when absent), textIsString says whether
\* typeof msg.text === "string", text is that string.
BinaryFrame(bytes) ==
  [isBinary |-> TRUE, bytes |-> bytes, json |-> FALSE, type |-> "",
   textIsString |-> FALSE, text |-> ""]
TextFrame(json, type, textIsString, text) ==
  [isBinary |-> FALSE, bytes |-> <<>>, json |-> json, type |-> type,
   textIsString |-> textIsString, text |-> text]

\* The browser frames of a whole session: audio, {type:"text",text:"hi"},
\* {type:"stop_audio"} and {foo:1}.
DownMsgs ==
  {BinaryFrame(<<65, 66, 67>>),
   TextFrame(TRUE, "text", TRUE, "hi"),
   TextFrame(TRUE, "stop_audio", FALSE, ""), TextFrame(TRUE, "", FALSE, ""),
   TextFrame(FALSE, "", FALSE, "")}

\* More frames for a session that is READY: audio of 0, 1 and 2 bytes and
\* {type:"text",text:5}.
WideDownMsgs ==
  DownMsgs \cup
  {BinaryFrame(<<>>), BinaryFrame(<<255>>), BinaryFrame(<<1, 2>>),
   TextFrame(TRUE, "text", FALSE, "")}

\* A text frame also ends the audio stream: two envelopes for one frame.
ForwardedEnvelopes_TextEndsAudio(f) ==
  IF f.isBinary THEN <<AudioEnvelope(f.bytes)>>
  ELSE IF ~f.json THEN <<>>
  ELSE (IF f.type = "text" /\ f.textIsString
          THEN <<TextEnvelope(f.text), StopEnvelope>> ELSE <<>>)
       \o (IF f.type = "stop_audio" THEN <<StopEnvelope>> ELSE <<>>)

\* The `typeof msg.text === "string"` test is missing.
ForwardedEnvelopes_NoTypeofCheck(f) ==
  IF f.isBinary THEN <<AudioEnvelope(f.bytes)>>
  ELSE IF ~f.json THEN <<>>
  ELSE (IF f.type = "text" THEN <<TextEnvelope(f.text)>> ELSE <<>>)
       \o (IF f.type = "stop_audio" THEN <<StopEnvelope>> ELSE <<>>)

\* What the browser message handler sends upstream for frame f once its two
\* guards (upstream OPEN, readiness) have passed.
ForwardedEnvelopes(f) ==
  IF f.isBinary THEN <<AudioEnvelope(f.bytes)>>
  ELSE IF ~f.json THEN <<>>
  ELSE (IF f.type = "text" /\ f.textIsString THEN <<TextEnvelope(f.text)>> ELSE <<>>)
       \o (IF f.type = "stop_audio" THEN <<StopEnvelope>> ELSE <<>>)

\* The readiness guard is missing.
ForwardingAllowed_NoReadyGuard == ReadyStateOpen(upState)

\* The test of the upstream readyState is missing.
ForwardingAllowed_NoOpenGuard == vertexReady

\* The guards of the browser message handler.
ForwardingAllowed == ReadyStateOpen(upState) /\ vertexReady

\* -------------------------------------------------- model discovery
\* part_000 resolves the model of a session from process.env.GEMINI_MODEL or
\* from a cache of the models.list answer that all connections and the
\* GET /models route share.
NoModel == ""
NoError == ""
NativeAudioModel == "models/gemini-2.5-flash-native-audio-preview-12-2025"
FlashLiveModel == "models/gemini-2.0-flash-live-001"
preferred == <<NativeAudioModel, FlashLiveModel>>

\* A model of the listing: live says whether supportedGenerationMethods is an
\* array that includes "BidiGenerateContent".
Model(name, live) == [name |-> name, live |-> live]
IsLive(m) == m.live

\* The preference list is ignored when the input has a preferred model
\* first: the first live model of the input that is a preferred one wins.
pickLiveModel_InputOrder(models) ==
  LET live == SelectSeq(models, IsLive)
      hits == {i \in DOMAIN live : \E w \in DOMAIN preferred : live[i].name = preferred[w]}
  IN IF hits # {} THEN live[CHOOSE i \in hits : \A j \in hits : i <= j].name
     ELSE IF live # <<>> THEN live[1].name
     ELSE NoModel

\* pickLiveModel(models): the first preferred name found among the live
\* models, else the first live model, else null.
pickLiveModel(models) ==
  LET live == SelectSeq(models, IsLive)
      hits == {w \in DOMAIN preferred :
                 \E i \in DOMAIN live : live[i].name = preferred[w]}
  IN IF hits # {} THEN preferred[CHOOSE w \in hits : \A v \in hits : w <= v]
     ELSE IF live # <<>> THEN live[1].name
     ELSE NoModel

\* What listModels can answer: a list of models, or a failure ("throws").
ModelLists ==
  {<<Model("models/text-only", FALSE)>>,
   <<Model("models/other-live", TRUE), Model(FlashLiveModel, TRUE)>>}
Listings == [ok : {TRUE}, models : ModelLists] \cup {[ok |-> FALSE, models |-> <<>>]}

\* The value of `cached`.
Snapshot(at, models, chosen, error) ==
  [at |-> at, models |-> models, chosen |-> chosen, error |-> error]
InitialSnapshot == Snapshot(0, <<>>, NoModel, NoError)

\* The callers of refreshModelCache: the connection handler of the session,
\* the connection handler of another session, the GET /models route.
Callers == {"conn", "conn2", "debug"}
IdleCall == [pc |-> "idle", now |-> 0, data |-> InitialSnapshot, listedItself |-> FALSE]

\* `if (cached.chosen && now - cached.at < 10 * 60 * 1000) return cached;`
TickMinutes == 5

\* The test of cached.chosen is missing: a cached failure counts as fresh.
IsFresh_AnyResult(now) == now - cached.at < CacheLifetime

\* A snapshot that is exactly as old as the lifetime still counts as fresh.
IsFresh_Inclusive(now) == cached.chosen # NoModel /\ now - cached.at <= CacheLifetime

IsFresh(now) == cached.chosen # NoModel /\ now - cached.at < CacheLifetime

\* Module load: the cache is empty and nobody has called yet.
CacheIdle ==
  /\ cached = InitialSnapshot
  /\ clock = 0
  /\ call = [c \in Callers |-> IdleCall]
  /\ listed = <<>>

\* ------------------------------------------------------------------ state
Init ==
  /\ variant \in Variants
  /\ projectSet \in BOOLEAN
  /\ pc = "start"
  /\ clientState = "OPEN"
  /\ upState = "NONE"
  /\ vertexReady = FALSE
  /\ upOut = <<>>
  /\ clientOut = <<>>
  /\ sentNotOpen = FALSE
  /\ upIn = <<>>
  /\ downCount = 0
  /\ closeMissed = FALSE
  /\ clientCloses = 0
  /\ downIn = <<>>
  /\ upCloseCode = 0
  /\ setupThrew = FALSE
  /\ droppedLate = FALSE
  /\ CacheIdle
  /\ envModel = ""

\* clientWs.send(JSON.stringify(ev)) / wsSendSafe(clientWs, ev) for each event
\* of evs: the browser gets them when its socket is OPEN, nothing otherwise.
Deliver(evs) == IF ReadyStateOpen(clientState) THEN clientOut \o evs ELSE clientOut

\* wsSendSafe(ws, obj) calls ws.send only on an OPEN socket; the revisions
\* without it call clientWs.send whatever the state of the socket.
SendAttempted_Always(state) == TRUE

SendAttempted(state) == IF UsesSendSafe THEN ReadyStateOpen(state) ELSE TRUE

SentNotOpenAfter(evs) ==
  sentNotOpen \/ (evs # <<>> /\ SendAttempted(clientState) /\ ~ReadyStateOpen(clientState))

\* The notification is sent but the browser socket is left open.
NotifyAndClose_NoClose(ev) ==
  /\ clientOut' = Deliver(<<ev>>)
  /\ sentNotOpen' = SentNotOpenAfter(<<ev>>)
  /\ UNCHANGED <<clientState, clientCloses>>

\* A terminal notification followed by clientWs.close().
NotifyAndClose(ev) ==
  /\ clientOut' = Deliver(<<ev>>)
  /\ sentNotOpen' = SentNotOpenAfter(<<ev>>)
  /\ clientState' = CloseClient(clientState)
  /\ clientCloses' = IF CloseClient(clientState) # clientState
                       THEN clientCloses + 1 ELSE clientCloses

\* wss.on("connection"), up to its first await or to its end.
Connection ==
  /\ pc = "start"
  /\ IF ~projectSet
       THEN /\ NotifyAndClose(ConfigErrorEv)
            /\ pc' = "failed"
            /\ UNCHANGED upState
       ELSE IF AsyncHandler
         THEN /\ pc' = "await"
              /\ UNCHANGED <<upState, clientOut, sentNotOpen, clientState, clientCloses>>
         ELSE /\ pc' = "wired"
              /\ upState' = "CONNECTING"
              /\ UNCHANGED <<clientOut, sentNotOpen, clientState, clientCloses>>
  /\ UNCHANGED <<cacheVars, variant, projectSet, vertexReady, upOut, upIn, downCount,
                 downIn, upCloseCode, setupThrew, droppedLate, closeMissed>>

\* The failure is reported but the handler goes on to connect upstream.
Resume_ConnectsAnyway(ok) ==
  /\ pc = "await"
  /\ pc' = IF ok THEN "wired" ELSE "failed"
  /\ upState' = "CONNECTING"
  /\ IF ok THEN UNCHANGED <<clientOut, sentNotOpen, clientState, clientCloses>>
           ELSE /\ clientOut' = Deliver(<<ResumeErrorEv>>)
                /\ sentNotOpen' = SentNotOpenAfter(<<ResumeErrorEv>>)
                /\ clientState' = CloseClient(clientState)
                /\ clientCloses' = IF CloseClient(clientState) # clientState
                                     THEN clientCloses + 1 ELSE clientCloses
  /\ UNCHANGED <<cacheVars, variant, projectSet, vertexReady, upOut, upIn, downCount,
                 downIn, upCloseCode, setupThrew, droppedLate, closeMissed>>

\* The handler resumes after `await getAccessToken()` (server.js, part_004) or
\* `await refreshModelCache(apiKey)` (part_000).  ok: the token was acquired /
\* a model is available; the upstream socket is created and every listener is
\* registered.  Otherwise the error is reported and the browser is closed.
Resume(ok) ==
  /\ pc = "await"
  /\ IF ok
       THEN /\ pc' = "wired"
            /\ upState' = "CONNECTING"
            /\ UNCHANGED <<clientOut, sentNotOpen, clientState, clientCloses>>
       ELSE /\ pc' = "failed"
            /\ NotifyAndClose(ResumeErrorEv)
            /\ UNCHANGED upState
  /\ UNCHANGED <<cacheVars, variant, projectSet, vertexReady, upOut, upIn, downCount,
                 downIn, upCloseCode, setupThrew, droppedLate, closeMissed>>

\* The socket opens but no setup envelope is sent.
UpstreamOpen_NoSetup ==
  /\ pc = "wired"
  /\ upState = "CONNECTING"
  /\ upState' = "OPEN"
  /\ UNCHANGED <<cacheVars, variant, projectSet, pc, clientState, vertexReady, upOut,
                 clientOut, sentNotOpen, upIn, downCount, downIn, upCloseCode, setupThrew,
                 droppedLate, closeMissed, clientCloses>>

\* vertexWs.on("open"): the setup envelope is sent.
UpstreamOpen ==
  /\ pc = "wired"
  /\ upState = "CONNECTING"
  /\ upState' = "OPEN"
  /\ upOut' = Append(upOut, SetupMsg)
  /\ UNCHANGED <<cacheVars, variant, projectSet, pc, clientState, vertexReady,
                 clientOut, sentNotOpen, upIn, downCount, downIn, upCloseCode, setupThrew,
                 droppedLate, closeMissed, clientCloses>>

\* On the acknowledgment an audio frame that came too early is sent after all.
UpstreamMessage_Replays(m) ==
  /\ pc = "wired"
  /\ upState \in {"OPEN", "CLOSING"}
  /\ Len(upIn) < MaxUpMsgs
  /\ upIn' = Append(upIn, [msg |-> m, open |-> ReadyStateOpen(clientState)])
  /\ vertexReady' = ReadyAfter(m, vertexReady)
  /\ clientOut' = Deliver(UpstreamEvents(m))
  /\ sentNotOpen' = SentNotOpenAfter(UpstreamEvents(m))
  /\ upOut' = IF AcksSetup(m) /\ downCount > Len(downIn)
                THEN Append(upOut, AudioEnvelope(<<65, 66, 67>>)) ELSE upOut
  /\ UNCHANGED <<cacheVars, variant, projectSet, pc, clientState, upState, downCount,
                 downIn, upCloseCode, setupThrew, droppedLate, closeMissed,
                 clientCloses>>

\* vertexWs.on("message").
UpstreamMessage(m) ==
  /\ pc = "wired"
  /\ upState \in {"OPEN", "CLOSING"}
  /\ Len(upIn) < MaxUpMsgs
  /\ upIn' = Append(upIn, [msg |-> m, open |-> ReadyStateOpen(clientState)])
  /\ vertexReady' = ReadyAfter(m, vertexReady)
  /\ clientOut' = Deliver(UpstreamEvents(m))
  /\ sentNotOpen' = SentNotOpenAfter(UpstreamEvents(m))
  /\ UNCHANGED <<cacheVars, variant, projectSet, pc, clientState, upState, upOut,
                 downCount, downIn, upCloseCode, setupThrew, droppedLate, closeMissed,
                 clientCloses>>

\* vertexWs.on("unexpected-response"): the handshake was answered with an
\* HTTP response; with a listener registered the socket stays CONNECTING and
\* emits no 'error'.  The handler only registers the 'data' and 'end'
\* listeners of the response.
UpstreamUnexpectedResponse ==
  /\ pc = "wired"
  /\ HasUnexpectedResponse
  /\ upState = "CONNECTING"
  /\ upState' = "RESPONDING"
  /\ UNCHANGED <<cacheVars, variant, projectSet, pc, clientState, vertexReady,
                 upOut, clientOut, sentNotOpen, upIn, downCount, downIn, upCloseCode, setupThrew,
                 droppedLate, closeMissed, clientCloses>>

\* resp.on("end"): the body of the response r is complete; the error event is
\* sent and the browser socket closed.  A handshake that was aborted in the
\* meantime has destroyed the response.
ResponseEnd(r) ==
  /\ pc = "wired"
  /\ upState = "RESPONDING"
  /\ upState' = "REJECTED"
  /\ NotifyAndClose(HandshakeErrorEv(r.status, r.body))
  /\ UNCHANGED <<cacheVars, variant, projectSet, pc, vertexReady, upOut, upIn,
                 downCount, downIn, upCloseCode, setupThrew, droppedLate, closeMissed>>

\* vertexWs.on("error"): a failed or aborted handshake, or a failure of the
\* open connection; 'close' follows.
UpstreamError ==
  /\ pc = "wired"
  /\ upState \in {"CONNECTING", "OPEN", "CLOSING", "ABORTING"}
  /\ upState' = "ERRORED"
  /\ NotifyAndClose(TransportErrorEv)
  /\ UNCHANGED <<cacheVars, variant, projectSet, pc, vertexReady, upOut, upIn,
                 downCount, downIn, upCloseCode, setupThrew, droppedLate, closeMissed>>

\* vertexWs.on("close").
UpstreamClose(code) ==
  /\ pc = "wired"
  /\ upState \in {"OPEN", "CLOSING", "ERRORED"}
  /\ upState' = "CLOSED"
  /\ upCloseCode' = code
  /\ NotifyAndClose(ClosedEv(code))
  /\ UNCHANGED <<cacheVars, variant, projectSet, pc, vertexReady, upOut, upIn,
                 downCount, downIn, setupThrew, droppedLate, closeMissed>>

\* The envelopes of the new frame are put ahead of those already sent.
ClientMessage_NewestFirst(f) ==
  /\ pc # "start"
  /\ clientState \in {"OPEN", "CLOSING"}
  /\ downCount < MaxDownMsgs
  /\ downCount' = downCount + 1
  /\ downIn' = IF pc = "wired" /\ ForwardingAllowed THEN Append(downIn, f) ELSE downIn
  /\ droppedLate' = (droppedLate \/ (pc = "wired" /\ vertexReady /\ ~ForwardingAllowed))
  /\ upOut' = IF pc = "wired" /\ ForwardingAllowed
                THEN <<Head(upOut)>> \o ForwardedEnvelopes(f) \o Tail(upOut)
                ELSE upOut
  /\ UNCHANGED <<cacheVars, variant, projectSet, pc, clientState, upState, vertexReady,
                 clientOut, sentNotOpen, upIn, closeMissed, upCloseCode, setupThrew, clientCloses>>

\* A stop_audio frame also closes the upstream connection.
ClientMessage_StopCancels(f) ==
  /\ pc # "start"
  /\ clientState \in {"OPEN", "CLOSING"}
  /\ downCount < MaxDownMsgs
  /\ downCount' = downCount + 1
  /\ downIn' = IF pc = "wired" /\ ForwardingAllowed THEN Append(downIn, f) ELSE downIn
  /\ droppedLate' = (droppedLate \/ (pc = "wired" /\ vertexReady /\ ~ForwardingAllowed))
  /\ upOut' = IF pc = "wired" /\ ForwardingAllowed
                THEN upOut \o ForwardedEnvelopes(f) ELSE upOut
  /\ upState' = IF pc = "wired" /\ ForwardingAllowed /\ f.type = "stop_audio"
                  THEN CloseUpstream(upState) ELSE upState
  /\ UNCHANGED <<cacheVars, variant, projectSet, pc, clientState, vertexReady,
                 clientOut, sentNotOpen, upIn, closeMissed, upCloseCode, setupThrew, clientCloses>>

\* clientWs.on("message"); without a registered listener the frame is lost.
ClientMessage(f) ==
  /\ pc # "start"
  /\ clientState \in {"OPEN", "CLOSING"}
  /\ downCount < MaxDownMsgs
  /\ downCount' = downCount + 1
  /\ downIn' = IF pc = "wired" /\ ForwardingAllowed THEN Append(downIn, f) ELSE downIn
  /\ droppedLate' = (droppedLate \/ (pc = "wired" /\ vertexReady /\ ~ForwardingAllowed))
  /\ upOut' = IF pc = "wired" /\ ForwardingAllowed
                THEN upOut \o ForwardedEnvelopes(f) ELSE upOut
  /\ UNCHANGED <<cacheVars, variant, projectSet, pc, clientState, upState, vertexReady,
                 clientOut, sentNotOpen, upIn, closeMissed, upCloseCode, setupThrew, clientCloses>>

\* clientWs.on("error"), with the listener registered; 'close' follows.
ClientError ==
  /\ pc = "wired"
  /\ clientState \in {"OPEN", "CLOSING"}
  /\ clientState' = "CLOSING"
  /\ upState' = CloseUpstream(upState)
  /\ UNCHANGED <<cacheVars, variant, projectSet, pc, vertexReady, upOut, clientOut, sentNotOpen,
                 upIn, downCount, downIn, upCloseCode, setupThrew, droppedLate,
                 closeMissed, clientCloses>>

\* The browser's 'close' event: the browser left, or the close the bridge
\* started has completed.  clientWs.on("close") runs if it is registered.
ClientClose ==
  /\ pc # "start"
  /\ clientState \in {"OPEN", "CLOSING"}
  /\ clientState' = "CLOSED"
  /\ upState' = IF pc = "wired" THEN CloseUpstream(upState) ELSE upState
  /\ closeMissed' = (closeMissed \/ pc = "await")
  /\ UNCHANGED <<cacheVars, variant, projectSet, pc, vertexReady, upOut, clientOut, sentNotOpen,
                 upIn, downCount, downIn, upCloseCode, setupThrew, droppedLate,
                 clientCloses>>

Next ==
  \/ Connection
  \/ \E ok \in BOOLEAN : Resume(ok)
  \/ UpstreamOpen
  \/ \E m \in UpMsgs : UpstreamMessage(m)
  \/ UpstreamUnexpectedResponse
  \/ \E r \in Responses : ResponseEnd(r)
  \/ UpstreamError
  \/ \E code \in CloseCodes : UpstreamClose(code)
  \/ \E f \in DownMsgs : ClientMessage(f)
  \/ ClientError
  \/ ClientClose

Spec == Init /\ [][Next]_vars

\* The event loop runs every continuation and every pending socket event: the
\* awaited call settles, a socket that is closing gets its 'close', an aborted
\* handshake gets its 'error'.  Nothing makes an open upstream close by itself.
FairSpec ==
  /\ Spec
  /\ WF_vars(Connection)
  /\ WF_vars(\E ok \in BOOLEAN : Resume(ok))
  /\ WF_vars(clientState = "CLOSING" /\ ClientClose)
  /\ WF_vars(upState = "ABORTING" /\ UpstreamError)
  /\ WF_vars(\E r \in Responses : ResponseEnd(r))
  /\ WF_vars(upState \in {"CLOSING", "ERRORED"} /\ \E code \in CloseCodes : UpstreamClose(code))

\* A session that has reached READY: the handshake is done, the setup envelope
\* was sent and acknowledged, `ready` was delivered, both sockets are open.
ReadyInit ==
  /\ variant \in Variants
  /\ CacheIdle
  /\ envModel = ""
  /\ projectSet = TRUE
  /\ pc = "wired"
  /\ clientState = "OPEN"
  /\ upState = "OPEN"
  /\ vertexReady = TRUE
  /\ upOut = <<SetupMsg>>
  /\ clientOut = <<ReadyEv>>
  /\ sentNotOpen = FALSE
  /\ upIn = <<[msg |-> AckMsg, open |-> TRUE]>>
  /\ downCount = 0
  /\ closeMissed = FALSE
  /\ clientCloses = 0
  /\ downIn = <<>>
  /\ upCloseCode = 0
  /\ setupThrew = FALSE
  /\ droppedLate = FALSE

\* The two message handlers, fed from the wider input sets.
ReadyNext ==
  \/ \E m \in WideUpMsgs : UpstreamMessage(m)
  \/ \E f \in WideDownMsgs : ClientMessage(f)

ReadySpec == ReadyInit /\ [][ReadyNext]_vars

\* vertexWs.on("open") when building or sending the setup envelope raises.
\* With the try/catch the failure is reported and the browser closed; without
\* it the exception leaves the listener uncaught and ends the process, which
\* takes both sockets with it.
UpstreamOpenThrows ==
  /\ pc = "wired"
  /\ upState = "CONNECTING"
  /\ setupThrew' = TRUE
  /\ IF CatchesSetupFailure
       THEN /\ upState' = "OPEN"
            /\ NotifyAndClose(SetupErrorEv)
            /\ UNCHANGED pc
       ELSE /\ pc' = "crashed"
            /\ upState' = "CLOSED"
            /\ clientState' = "CLOSED"
            /\ UNCHANGED <<clientOut, sentNotOpen, clientCloses>>
  /\ UNCHANGED <<cacheVars, variant, projectSet, vertexReady, upOut, upIn, downCount,
                 downIn, upCloseCode, droppedLate, closeMissed>>

\* Whole sessions in which the setup send may raise.
ThrowNext == Next \/ UpstreamOpenThrows

ThrowSpec == Init /\ [][ThrowNext]_vars

\* ------------------------------------------- model discovery, the actions
\* Date.now() advances; the clock is read every TickMinutes minutes.
Tick ==
  /\ clock + TickMinutes <= MaxClock
  /\ clock' = clock + TickMinutes
  /\ UNCHANGED <<cached, call, envModel, listed, sessionVars>>

\* refreshModelCache(apiKey) from its call to its first await: a fresh cache
\* is returned as it is, otherwise listModels is requested.  A connection
\* handler calls once, the session's while it awaits; the route can be
\* requested again.
CallRefresh(c) ==
  /\ projectSet
  /\ call[c].pc = "idle" \/ (c = "debug" /\ call[c].pc = "returned")
  /\ c = "conn" => pc = "await"
  /\ IF IsFresh(clock)
       THEN /\ call' = [call EXCEPT ![c] = [pc |-> "returned", now |-> 0,
                                            data |-> cached, listedItself |-> FALSE]]
            /\ UNCHANGED listed
       ELSE /\ Len(listed) < MaxListings
            /\ call' = [call EXCEPT ![c] = [pc |-> "listing", now |-> clock,
                                            data |-> InitialSnapshot,
                                            listedItself |-> TRUE]]
            /\ listed' = Append(listed, clock)
  /\ UNCHANGED <<cached, clock, envModel, sessionVars>>

\* The fields of the cache are assigned one by one, and a failed listing
\* assigns only the time and the error.
ListingSettles_InPlace(c, r) ==
  /\ call[c].pc = "listing"
  /\ cached' = IF r.ok
                 THEN Snapshot(call[c].now, r.models, pickLiveModel(r.models), NoError)
                 ELSE [cached EXCEPT !.at = call[c].now, !.error = "models.list failed"]
  /\ call' = [call EXCEPT ![c] = [@ EXCEPT !.pc = "returned", !.now = 0,
                                             !.data = cached']]
  /\ UNCHANGED <<clock, envModel, listed, sessionVars>>

\* refreshModelCache after `await listModels(apiKey)`: r is the answer.  The
\* cache is assigned a new object stamped with the time of the call, and the
\* caller is handed the cache.
ListingSettles(c, r) ==
  /\ call[c].pc = "listing"
  /\ cached' = IF r.ok
                 THEN Snapshot(call[c].now, r.models, pickLiveModel(r.models), NoError)
                 ELSE Snapshot(call[c].now, <<>>, NoModel, "models.list failed")
  /\ call' = [call EXCEPT ![c] = [@ EXCEPT !.pc = "returned", !.now = 0,
                                             !.data = cached']]
  /\ UNCHANGED <<clock, envModel, listed, sessionVars>>

\* The connection handler of part_000 resumes with the snapshot it was handed.
\* (The continuation runs as a microtask right after the call returned; no
\* other event comes between the two.)
ResumeResolved ==
  /\ call["conn"].pc = "returned"
  /\ Resume(ModelToUse # NoModel)

\* One session of part_000 with its model discovery, next to another
\* connection and the GET /models route calling refreshModelCache.
CacheInit ==
  /\ variant = "part_000"
  /\ projectSet = TRUE
  /\ pc = "start"
  /\ clientState = "OPEN"
  /\ upState = "NONE"
  /\ vertexReady = FALSE
  /\ upOut = <<>>
  /\ clientOut = <<>>
  /\ sentNotOpen = FALSE
  /\ upIn = <<>>
  /\ downCount = 0
  /\ closeMissed = FALSE
  /\ clientCloses = 0
  /\ downIn = <<>>
  /\ upCloseCode = 0
  /\ setupThrew = FALSE
  /\ droppedLate = FALSE
  /\ CacheIdle
  /\ envModel \in {"", "models/configured"}

CacheNext ==
  \/ Tick
  \/ Connection
  \/ \E c \in Callers : CallRefresh(c)
  \/ \E c \in Callers, r \in Listings : ListingSettles(c, r)
  \/ ResumeResolved
  \/ UpstreamOpen
  \/ UpstreamMessage(AckMsg)
  \/ ClientClose

CacheSpec == CacheInit /\ [][CacheNext]_vars




\* ------------------------------------------------- pickLiveModel alone
\* The model lists pickLiveModel is applied to: up to MaxModels models, each
\* one of four names, Live-capable or not, in any order, repeats included.
ModelNames == {NativeAudioModel, FlashLiveModel, "models/other-live", "models/text-only"}
AnyModels == [name : ModelNames, live : BOOLEAN]
AnyModelLists == UNION {[1..n -> AnyModels] : n \in 0..MaxModels}

\* One request of the route with an empty cache, answered with `models`:
\* chosen = pickLiveModel(models) is stored and handed to the caller.
Pick(models) ==
  /\ call["debug"].pc = "idle"
  /\ cached' = Snapshot(clock, models, pickLiveModel(models), NoError)
  /\ call' = [call EXCEPT !["debug"] = [pc |-> "returned", now |-> 0, data |-> cached',
                                        listedItself |-> TRUE]]
  /\ listed' = Append(listed, clock)
  /\ UNCHANGED <<clock, envModel, sessionVars>>

PickNext == \E models \in AnyModelLists : Pick(models)

PickSpec == CacheInit /\ [][PickNext]_vars

\* ------------------------------------------------------------ properties
\* The events that announce the end of the session.
IsHandshakeErrorEv(e) == e.type = "error" /\ e.text = "WS handshake failed"
IsTerminalEv(e) ==
  \/ e.type = "closed"
  \/ IsHandshakeErrorEv(e)
  \/ e \in {TransportErrorEv, ConfigErrorEv, ResumeErrorEv}
IsAckEntry(h) == AcksSetup(h.msg)
IsDeliveredAck(h) == h.open /\ AcksSetup(h.msg)
IsReadyEv(e) == e.type = "ready"
IsContentEv(e) ==
  e.type \in {"transcript", "ai_transcript", "ai_text", "audio", "interrupted",
              "turn_complete"}
NotTerminalEv(e) == ~IsTerminalEv(e)

AckSeen == \E a \in DOMAIN upIn : IsAckEntry(upIn[a])
ReadyCount == Len(SelectSeq(clientOut, IsReadyEv))
TerminalCount == Len(SelectSeq(clientOut, IsTerminalEv))

\* The events the upstream handler sent for the messages of the history h
\* that arrived while the browser socket was OPEN.
RECURSIVE DeliveredEvents(_)
DeliveredEvents(h) ==
  IF h = <<>> THEN <<>>
  ELSE (IF Head(h).open THEN UpstreamEvents(Head(h).msg) ELSE <<>>)
       \o DeliveredEvents(Tail(h))

\* An audio event reached the browser with no ready event before it.
AudioBeforeReady ==
  \E i \in DOMAIN clientOut :
    /\ clientOut[i].type = "audio"
    /\ \A j \in 1..(i - 1) : clientOut[j].type # "ready"

\* The upstream sent inline media with no delivered acknowledgment before it.
MediaBeforeAck ==
  \E a \in DOMAIN upIn :
    /\ \E k \in DOMAIN UpstreamEvents(upIn[a].msg) :
         UpstreamEvents(upIn[a].msg)[k].type = "audio"
    /\ \A b \in 1..(a - 1) : ~IsDeliveredAck(upIn[b])

\* Both legs of the session are gone: the browser socket is CLOSED and the
\* upstream socket is CLOSED or was never created by a handler that has ended.
BothClosed ==
  /\ clientState = "CLOSED"
  /\ upState = "CLOSED" \/ (upState = "NONE" /\ pc = "failed")

\* C1: as long as no setup acknowledgment has been handled, the only message
\* the bridge has sent upstream is the setup envelope: no browser frame,
\* binary or text, is forwarded before READY.
C1_NoForwardBeforeReady ==
  ~AckSeen => \A i \in DOMAIN upOut : upOut[i] = SetupMsg

\* Browser frames arrived on an open upstream before the acknowledgment.
C1_Witness ==
  /\ ~AckSeen /\ downCount = MaxDownMsgs /\ upState = "OPEN" /\ upOut = <<SetupMsg>>

\* C2: once the upstream transport has opened, the setup envelope has been
\* sent, it is the first message sent upstream and it is sent only once.
C2_SetupFirstAndOnce ==
  /\ (upState \in {"OPEN", "CLOSING"} \/ upIn # <<>>) => upOut # <<>>
  /\ upOut # <<>> =>
       /\ upOut[1] = SetupMsg
       /\ \A i \in 2..Len(upOut) : upOut[i].kind # "setup"

\* The setup envelope followed by forwarded browser frames.
C2_Witness == Len(upOut) >= 3 /\ upOut[1] = SetupMsg

\* C3: whichever leg closes or errors, in whatever state of the session, both
\* connections of the session are eventually closed.
C3_BothLegsEventuallyClosed ==
  (clientState = "CLOSED" \/ upState \in {"ERRORED", "CLOSED"}) ~> BothClosed

\* C4: when the browser closed while the connection handler was suspended in
\* its await, no upstream connection of the session is connecting or open.
C4_NoUpstreamAfterEarlyClose ==
  closeMissed => upState \notin {"CONNECTING", "OPEN"}

\* C5: handling a parsed upstream message that carries an error field, with
\* the browser open, delivers exactly the one error event with the stringified
\* error and changes neither the readiness flag nor any socket.
C5_InbandErrorOnly ==
  [][ (/\ Len(upIn') = Len(upIn) + 1
       /\ safeJsonParse(upIn'[Len(upIn')].msg)
       /\ upIn'[Len(upIn')].msg.error # ""
       /\ clientState = "OPEN")
      => /\ clientOut' = Append(clientOut, InbandErrorEv(upIn'[Len(upIn')].msg.error))
         /\ vertexReady' = vertexReady
         /\ clientState' = clientState
         /\ upState' = upState ]_vars

\* C6: the readiness flag, once true, stays true.
C6_ReadinessMonotonic == [][vertexReady => vertexReady']_vars

\* Readiness survived later upstream messages and the end of both legs.
C6_Witness ==
  vertexReady /\ Len(upIn) = MaxUpMsgs /\ upState = "CLOSED" /\ clientState = "CLOSED"

\* C7 as stated: once the upstream has acknowledged the setup, the browser has
\* received exactly one ready event and no audio event before it.
C7_ExactlyOneReadyBeforeAudio ==
  AckSeen => (ReadyCount = 1 /\ ~AudioBeforeReady)

\* C7 as amended: the browser receives one ready event for each acknowledgment
\* that arrives while its socket is open, and an audio event precedes the
\* first ready event only if the upstream sent inline media before any
\* acknowledgment was delivered.
C7_OneReadyPerAck ==
  /\ ReadyCount = Len(SelectSeq(upIn, IsDeliveredAck))
  /\ AudioBeforeReady => MediaBeforeAck

\* One acknowledgment, then audio: one ready event, and it comes first.
C7_Witness ==
  /\ Len(SelectSeq(upIn, IsAckEntry)) = 1
  /\ ReadyCount = 1
  /\ ~AudioBeforeReady
  /\ \E i \in DOMAIN clientOut : clientOut[i].type = "audio"

\* C8 as stated: while the readiness flag is not set, no content event
\* (transcript, ai_transcript, ai_text, audio, interrupted, turn_complete) has
\* been delivered to the browser.
C8_ContentGatedByReady ==
  ~vertexReady => \A i \in DOMAIN clientOut : ~IsContentEv(clientOut[i])

\* C8 as amended: the upstream-to-browser direction is not gated by readiness;
\* what the browser has received, terminal notifications aside, is exactly the
\* translation of every upstream message handled while its socket was open,
\* whether or not the acknowledgment had been seen, and nothing is delivered
\* before the setup envelope was sent.
C8_PassThroughFromOpen ==
  /\ SelectSeq(clientOut, NotTerminalEv) = DeliveredEvents(upIn)
  /\ upIn # <<>> => upOut # <<>> /\ upOut[1] = SetupMsg

\* Content reached the browser although the session never became ready.
C8_Witness ==
  /\ ~vertexReady
  /\ Len(upIn) = MaxUpMsgs
  /\ \E i \in DOMAIN clientOut : IsContentEv(clientOut[i])

\* C9 as stated: after a configuration error (identifier missing, or the
\* credential not acquired) no upstream connection exists, the browser has
\* received exactly one error event and its connection is closed or closing.
C9_ConfigErrorReported ==
  pc = "failed" =>
    /\ upState = "NONE"
    /\ Len(clientOut) = 1 /\ clientOut[1].type = "error"
    /\ clientState # "OPEN"

\* C9 as amended: after a configuration error no upstream connection exists
\* and nothing was sent upstream, the browser connection is closed or closing,
\* and the browser has received exactly one error event, unless it had already
\* closed while the handler was awaiting, in which case it has received none.
C9_ConfigErrorReportedIfOpen ==
  pc = "failed" =>
    /\ upState = "NONE" /\ upOut = <<>>
    /\ clientState # "OPEN"
    /\ clientOut = IF closeMissed THEN <<>>
                   ELSE IF projectSet THEN <<ResumeErrorEv>> ELSE <<ConfigErrorEv>>
    /\ clientCloses = IF closeMissed THEN 0 ELSE 1

\* The credential was not acquired and the open browser was told once.
C9_Witness ==
  /\ pc = "failed" /\ projectSet /\ ~closeMissed
  /\ clientOut = <<ResumeErrorEv>> /\ clientState = "CLOSED"

\* C10: however many terminal events a session sees, the browser receives at
\* most one terminal notification, nothing after it, and the bridge's close of
\* the browser socket takes effect at most once.
C10_TerminatesOnce ==
  /\ TerminalCount <= 1
  /\ clientCloses <= 1
  /\ \A i \in DOMAIN clientOut : IsTerminalEv(clientOut[i]) => i = Len(clientOut)
  /\ TerminalCount = 1 => clientState # "OPEN"

\* An upstream error followed by the upstream close: one notification.
C10_Witness ==
  /\ upState = "CLOSED"
  /\ clientOut # <<>>
  /\ clientOut[Len(clientOut)] = TransportErrorEv
  /\ clientCloses = 1

\* C11: when the upstream 'close' event arrives with code c while the browser
\* socket is open, the browser is delivered exactly one more event, a `closed`
\* event whose message carries c, and the bridge starts closing the browser
\* socket in the same step.
C11_ClosedCarriesCode ==
  [][(upState # "CLOSED" /\ upState' = "CLOSED" /\ clientState = "OPEN")
       => /\ Len(clientOut') = Len(clientOut) + 1
          /\ SubSeq(clientOut', 1, Len(clientOut)) = clientOut
          /\ clientOut'[Len(clientOut')].type = "closed"
          /\ clientOut'[Len(clientOut')].code = upCloseCode'
          /\ clientState' = "CLOSING"]_vars

\* A text frame that is not JSON, or JSON that has neither the `text` shape
\* (type "text" with a string text) nor the `stop_audio` shape.
IsJunkFrame(f) ==
  /\ ~f.isBinary
  /\ \/ ~f.json
     \/ ~(f.type = "text" /\ f.textIsString) /\ f.type # "stop_audio"

\* C12: a text frame accepted in READY that is not JSON or matches neither
\* shape sends nothing upstream, delivers nothing to the browser and changes
\* nothing of the session.
C12_JunkFrameIgnored ==
  [][(Len(downIn') = Len(downIn) + 1 /\ IsJunkFrame(downIn'[Len(downIn')]))
       => UNCHANGED <<upOut, clientOut, vertexReady, pc, clientState, upState,
                      clientCloses, upIn>>]_vars

C12_Witness ==
  /\ Len(downIn) = 2
  /\ ~downIn[1].json /\ IsJunkFrame(downIn[1])
  /\ downIn[2].json /\ downIn[2].type = "text" /\ IsJunkFrame(downIn[2])
  /\ upOut = <<SetupMsg>>
  /\ vertexReady /\ upState = "OPEN" /\ clientState = "OPEN"

\* C13: an upstream payload that JSON.parse rejects makes the handler send
\* exactly one event, a `debug` event whose raw is the payload cut to its first
\* 500 characters (the browser gets it when its socket is open); the readiness
\* flag, both sockets and the upstream output are left as they were.
C13_GarbageIsDebugOnly ==
  [][(Len(upIn') = Len(upIn) + 1 /\ upIn'[Len(upIn')].msg.json = "invalid")
       => /\ IF clientState = "OPEN"
               THEN /\ Len(clientOut') = Len(clientOut) + 1
                    /\ SubSeq(clientOut', 1, Len(clientOut)) = clientOut
                    /\ LET e == clientOut'[Len(clientOut')]
                           raw == upIn'[Len(upIn')].msg.raw
                       IN /\ e.type = "debug"
                          /\ Len(e.raw) = Min(Len(raw), DebugCap)
                          /\ \A i \in 1..Len(e.raw) : e.raw[i] = raw[i]
               ELSE clientOut' = clientOut
          /\ UNCHANGED <<vertexReady, clientState, upState, upOut, pc, clientCloses>>]_vars

C13_Witness ==
  /\ Len(upIn) = 2 /\ upIn[2].msg = LongGarbageMsg
  /\ Len(clientOut) = 2
  /\ clientOut[2].type = "debug"
  /\ Len(clientOut[2].raw) = DebugCap
  /\ vertexReady /\ upState = "OPEN" /\ clientState = "OPEN"

\* The envelopes the frames of h are translated to, frame after frame.
RECURSIVE ForwardedOf(_)
ForwardedOf(h) ==
  IF h = <<>> THEN <<>> ELSE ForwardedEnvelopes(Head(h)) \o ForwardedOf(Tail(h))

\* C14: order is preserved in both directions.  What was sent upstream is the
\* setup envelope followed by the translations of the accepted browser frames
\* in their arrival order; what the browser received from the message handler
\* is the events of the upstream messages in their arrival order, the events
\* of an earlier message before those of a later one; nothing is reordered,
\* merged or held back.
C14_OrderPreserved ==
  /\ upOut = (IF upOut = <<>> THEN <<>> ELSE <<SetupMsg>>) \o ForwardedOf(downIn)
  /\ SelectSeq(clientOut, NotTerminalEv) = DeliveredEvents(upIn)

C14_Witness ==
  /\ Len(downIn) = 2 /\ Len(upOut) = 3
  /\ upOut[2].kind = "text" /\ upOut[3].kind = "audio"
  /\ Len(upIn) = 2 /\ upIn[2].msg = TurnMsg
  /\ Len(clientOut) >= 3
  /\ clientOut[1].type = "ready" /\ clientOut[2].type = "transcript"

\* C15: nothing that arrived before READY is kept for later.  Apart from the
\* setup envelope, the upstream output grows only in the step in which a
\* browser frame arrives while the readiness flag is already set, and by the
\* translation of that very frame; in particular the step that sets the flag
\* sends nothing upstream.
C15_NoReplayOfDropped ==
  [][upOut' # upOut =>
       \/ upOut = <<>> /\ upOut' = <<SetupMsg>>
       \/ /\ vertexReady
          /\ downCount' = downCount + 1
          /\ Len(downIn') = Len(downIn) + 1
          /\ upOut' = upOut \o ForwardedEnvelopes(downIn'[Len(downIn')])]_vars

\* A frame was dropped, the session became ready, the next frame was forwarded.
C15_Witness ==
  /\ downCount = 2 /\ Len(downIn) = 1
  /\ vertexReady
  /\ Len(upOut) = 2 /\ upOut[1] = SetupMsg
  /\ <<upOut[2]>> = ForwardedEnvelopes(downIn[1])

\* A leg of the session has closed or errored.
LegDown ==
  \/ clientState # "OPEN"
  \/ upState \in {"CLOSING", "RESPONDING", "REJECTED", "ABORTING", "ERRORED", "CLOSED"}

\* The session is READY: acknowledged, with both sockets open.
InReady == vertexReady /\ upState = "OPEN" /\ clientState = "OPEN"

\* C16: CLOSED is terminal and a session is single-use.  From a state in which
\* a leg has closed or errored, no step forwards a browser frame upstream
\* (whatever the readiness flag says), no step leads to READY, the leg stays
\* down; and an upstream socket is created only when there was none, so there
\* is never a second one.
C16_ClosedIsTerminal ==
  [][/\ LegDown =>
          /\ downIn' = downIn
          /\ upOut' = upOut \/ (upOut = <<>> /\ upOut' = <<SetupMsg>>)
          /\ ~InReady'
          /\ LegDown'
     /\ (upState' = "CONNECTING" /\ upState # "CONNECTING") => upState = "NONE"
     /\ upState # "NONE" => upState' # "NONE"]_vars

\* A frame was forwarded, a leg went down with the readiness flag still set,
\* and the next frame was refused.
C16_Witness ==
  /\ LegDown /\ vertexReady /\ droppedLate
  /\ Len(downIn) = 1 /\ downCount = 2
  /\ upOut = <<SetupMsg>> \o ForwardedEnvelopes(downIn[1])
  /\ Len(upOut) = 2

\* The same part, and the same message, written with camelCase names only.
CamelPart(p) ==
  [p EXCEPT !.inline = IF p.inline = "none" THEN "none" ELSE "inlineData",
            !.mimeType = IF p.mimeType # "" THEN p.mimeType ELSE p.mime_type,
            !.mime_type = ""]
CamelMsg(m) ==
  [m EXCEPT !.sc = IF m.sc = "none" THEN "none" ELSE "serverContent",
            !.inner = "camel",
            !.parts = [i \in DOMAIN m.parts |-> CamelPart(m.parts[i])]]
CamelHistory(h) == [i \in DOMAIN h |-> [h[i] EXCEPT !.msg = CamelMsg(h[i].msg)]]

\* C17: the browser has received exactly the events it would have received had
\* every upstream message been written with camelCase names: a message spelled
\* with server_content, model_turn, inline_data, mime_type,
\* input_transcription, output_transcription or turn_complete yields the same
\* events as its camelCase spelling.
C17_SnakeSameAsCamel ==
  SelectSeq(clientOut, NotTerminalEv) = DeliveredEvents(CamelHistory(upIn))

\* Base64 decoding: four sextets give three bytes, '=' (64) in the last one or
\* two places gives two or one; text that is not a whole group decodes to
\* nothing.
RECURSIVE fromBase64(_)
fromBase64(s) ==
  IF Len(s) < 4 THEN <<>>
  ELSE (IF s[3] = 64 THEN <<s[1] * 4 + s[2] \div 16>>
        ELSE IF s[4] = 64
          THEN <<s[1] * 4 + s[2] \div 16, (s[2] % 16) * 16 + s[3] \div 4>>
          ELSE <<s[1] * 4 + s[2] \div 16, (s[2] % 16) * 16 + s[3] \div 4,
                 (s[3] % 4) * 64 + s[4]>>)
       \o fromBase64(SubSeq(s, 5, Len(s)))

\* C18: every binary frame accepted in READY sends exactly one envelope
\* upstream, an audio envelope whose media type is 16 kHz PCM and whose data
\* base64-decodes to exactly the bytes of the frame.
C18_AudioRoundTrip ==
  [][(Len(downIn') = Len(downIn) + 1 /\ downIn'[Len(downIn')].isBinary)
       => /\ Len(upOut') = Len(upOut) + 1
          /\ SubSeq(upOut', 1, Len(upOut)) = upOut
          /\ upOut'[Len(upOut')].kind = "audio"
          /\ upOut'[Len(upOut')].mimeType = "audio/pcm;rate=16000"
          /\ fromBase64(upOut'[Len(upOut')].data) = downIn'[Len(downIn')].bytes]_vars

\* One byte and two bytes of audio were forwarded, each padded.
C18_Witness ==
  /\ Len(downIn) = 2
  /\ downIn[1].isBinary /\ downIn[1].bytes = <<255>>
  /\ downIn[2].isBinary /\ downIn[2].bytes = <<1, 2>>
  /\ Len(upOut) = 3
  /\ upOut[2].data = <<63, 48, 64, 64>>
  /\ upOut[3].data = <<0, 16, 8, 64>>

\* The media type and payload the browser is to get for each inline part of
\* parts that has a payload: the upstream's media type when it gave one, 24 kHz
\* PCM otherwise, and the payload as it came.
RECURSIVE ExpectedAudio(_)
ExpectedAudio(parts) ==
  IF parts = <<>> THEN <<>>
  ELSE LET p == Head(parts)
           given == IF p.mimeType # "" THEN p.mimeType ELSE p.mime_type
       IN (IF p.inline = "none" \/ p.data = <<>> THEN <<>>
           ELSE <<[mimeType |-> IF given # "" THEN given ELSE "audio/pcm;rate=24000",
                   data |-> p.data]>>)
          \o ExpectedAudio(Tail(parts))

\* The message is handled as content and its parts are read.
PartsAreRead(h) ==
  /\ h.open
  /\ safeJsonParse(h.msg) /\ ~(HandlesErrorField /\ h.msg.error # "")
  /\ ~h.msg.setupComplete
  /\ ReadsModelTurn(h.msg)

RECURSIVE ExpectedAudioLog(_)
ExpectedAudioLog(h) ==
  IF h = <<>> THEN <<>>
  ELSE (IF PartsAreRead(Head(h)) THEN ExpectedAudio(Head(h).msg.parts) ELSE <<>>)
       \o ExpectedAudioLog(Tail(h))

IsAudioEv(e) == e.type = "audio"
AudioLog ==
  LET a == SelectSeq(clientOut, IsAudioEv)
  IN [i \in DOMAIN a |-> [mimeType |-> a[i].mimeType, data |-> a[i].data]]

\* C19: the audio events the browser received are, in order, one for each
\* inline part with a payload of the content messages handled; each carries
\* the payload unchanged and the upstream's media type when it gave one, 24 kHz
\* PCM otherwise; an inline part without payload gave no audio event.
C19_AudioPassThrough == AudioLog = ExpectedAudioLog(upIn)

C19_Witness ==
  /\ Len(upIn) = 2 /\ upIn[2].msg = MimeAudioPartMsg
  /\ Len(clientOut) = 2
  /\ clientOut[2].type = "audio"
  /\ clientOut[2].mimeType = "audio/wav"
  /\ clientOut[2].data = QUJD

\* C20: when building or sending the setup envelope raised an exception, the
\* browser has received an `error` event, its socket is closed or closing, and
\* the session is not READY.
C20_SetupFailureIsFatal ==
  setupThrew =>
    /\ \E i \in DOMAIN clientOut : clientOut[i].type = "error"
    /\ clientState # "OPEN"
    /\ ~InReady

\* The session waits for the acknowledgment: the setup envelope was sent, the
\* flag is not set, both sockets are open.
AwaitingSetupAck ==
  /\ pc = "wired" /\ upState = "OPEN" /\ clientState = "OPEN"
  /\ ~vertexReady

\* C21: there is no handshake timeout.  A session that waits for the
\* acknowledgment leaves that state only when a message carrying setupComplete
\* arrives or a leg closes or errors; it becomes READY by nothing else; and a
\* browser frame that arrives meanwhile is dropped.
C21_NoHandshakeTimeout ==
  [][AwaitingSetupAck =>
       /\ ~AwaitingSetupAck' =>
            \/ LegDown'
            \/ Len(upIn') = Len(upIn) + 1 /\ upIn'[Len(upIn')].msg.setupComplete
       /\ downCount' # downCount => upOut' = upOut /\ downIn' = downIn]_vars

\* Every input of the run was consumed and the session still waits.
C21_Witness ==
  /\ AwaitingSetupAck
  /\ Len(upIn) = MaxUpMsgs /\ downCount = MaxDownMsgs
  /\ upOut = <<SetupMsg>>

EventClass(e) ==
  CASE e.type = "ready" -> "ack"
    [] e.type \in {"transcript", "ai_transcript"} -> "transcript"
    [] e.type \in {"ai_text", "audio"} -> "content"
    [] e.type \in {"interrupted", "turn_complete"} -> "marker"
    [] OTHER -> "other"
ClassRank(c) ==
  CASE c = "transcript" -> 1 [] c = "content" -> 2 [] c = "marker" -> 3 [] OTHER -> 0

\* A step in which the upstream handler took a message that parsed and
\* carries no error field, the browser socket being open; the message, and
\* the events the browser got for it.
HandledPlainMsg ==
  /\ Len(upIn') = Len(upIn) + 1
  /\ upIn'[Len(upIn')].msg.json = "object"
  /\ upIn'[Len(upIn')].msg.error = ""
  /\ clientState = "OPEN"

\* C23 as stated: the events the browser gets for one parsed, non-error
\* upstream message all belong to one class.
C23_OneClassPerMessage ==
  [][HandledPlainMsg =>
       \A i, j \in (Len(clientOut) + 1)..Len(clientOut') :
         EventClass(clientOut'[i]) = EventClass(clientOut'[j])]_vars

\* C23 as amended: only the acknowledgment is exclusive.  A message carrying
\* setupComplete gives `ready` and nothing else; any other message gives no
\* `ready`, its events come class after class (transcripts, then content
\* parts, then turn markers), and a message written with camelCase names
\* gives events of every class it carries an element of.
C23_OnlyAckIsExclusive ==
  [][HandledPlainMsg =>
       LET m == upIn'[Len(upIn')].msg
           new == (Len(clientOut) + 1)..Len(clientOut')
           has(c) == \E i \in new : EventClass(clientOut'[i]) = c
       IN IF m.setupComplete
            THEN Len(clientOut') = Len(clientOut) + 1 /\ has("ack")
            ELSE /\ \A i \in new : ClassRank(EventClass(clientOut'[i])) > 0
                 /\ \A i, j \in new :
                      i < j => ClassRank(EventClass(clientOut'[i]))
                                 <= ClassRank(EventClass(clientOut'[j]))
                 /\ (m.sc = "serverContent" /\ m.inner = "camel") =>
                      /\ has("transcript") <=> (m.inputTx # "" \/ m.outputTx # "")
                      /\ has("content") <=>
                           \E k \in DOMAIN m.parts :
                             \/ m.parts[k].text # ""
                             \/ m.parts[k].inline # "none" /\ m.parts[k].data # <<>>
                      /\ has("marker") <=> (m.interrupted \/ m.turnComplete)]_vars

\* One message gave a transcript and two turn markers.
C23_Witness ==
  /\ Len(upIn) = 2 /\ upIn[2].msg = TurnMsg /\ upIn[2].open
  /\ Len(clientOut) = 4
  /\ clientOut[2].type = "transcript"
  /\ clientOut[3].type = "interrupted"
  /\ clientOut[4].type = "turn_complete"

\* C24: no browser frame is a cancellation.  A step that takes a frame
\* (binary, text, stop_audio, not JSON, or of no known type) leaves both
\* connections, the readiness flag and the handler's position as they were;
\* and the bridge starts closing the upstream connection for the browser's
\* sake only in a step where the browser socket itself closes or fails.
C24_NoFrameCancels ==
  [][/\ downCount' # downCount =>
          /\ clientState' = clientState /\ upState' = upState
          /\ vertexReady' = vertexReady /\ pc' = pc
          /\ clientCloses' = clientCloses /\ clientOut' = clientOut
     /\ (upState' \in {"CLOSING", "ABORTING"} /\ upState' # upState) =>
          /\ downCount' = downCount
          /\ clientState \in {"OPEN", "CLOSING"}
          /\ clientState' \in {"CLOSING", "CLOSED"}]_vars

\* A READY session took a stop_audio frame and a frame that is not JSON and
\* both connections are still open.
C24_Witness ==
  /\ vertexReady /\ upState = "OPEN" /\ clientState = "OPEN"
  /\ downIn = <<TextFrame(TRUE, "stop_audio", FALSE, ""),
                TextFrame(FALSE, "", FALSE, "")>>

\* C25: the cache is refreshed at most once per staleness window: no two
\* model-listing requests, whoever issues them, start less than the cache
\* lifetime apart.
C25_OneListingPerWindow ==
  \A i, j \in DOMAIN listed :
    i < j => listed[j] - listed[i] >= CacheLifetime

\* A snapshot is the whole result of one listing: of a listing that answered
\* (no error, chosen picked from its models) or of one that failed (error
\* set, nothing chosen, no models).
Consistent(s) ==
  \/ s.error = NoError /\ s.chosen = pickLiveModel(s.models)
  \/ s.error # NoError /\ s.chosen = NoModel /\ s.models = <<>>
FromOneListing(s) ==
  /\ Consistent(s)
  /\ \E i \in DOMAIN listed : listed[i] = s.at
  /\ s.error = NoError => \E r \in Listings : r.ok /\ r.models = s.models

\* C26: the cache is replaced wholesale.  The cache always holds a
\* consistent snapshot, every caller of refreshModelCache is handed the
\* whole result of one listing, and a snapshot a caller holds does not
\* change when the cache is refreshed again.
C26_ConsistentSnapshot ==
  [][/\ Consistent(cached')
     /\ cached' # cached => FromOneListing(cached')
     /\ \A c \in Callers :
          /\ call[c]'.pc = "returned" => FromOneListing(call[c]'.data)
          /\ (call[c].pc = "returned" /\ call[c]'.pc = "returned"
                /\ call[c]'.data # call[c].data) => c = "debug"]_vars

\* The session was handed the result of a failed listing, and the cache has
\* since been replaced by the result of a later listing that answered.
C26_Witness ==
  /\ call["conn"].pc = "returned"
  /\ call["conn"].data.error # NoError
  /\ cached.error = NoError /\ cached.chosen # NoModel
  /\ cached.at > call["conn"].data.at

\* The frames of the three accepted shapes among those the handler took in
\* READY with the upstream connection open, in arrival order.
IsAcceptedFrame(f) == ~IsJunkFrame(f)
Accepted == SelectSeq(downIn, IsAcceptedFrame)
MatchingKind(f) ==
  IF f.isBinary THEN "audio" ELSE IF f.type = "text" THEN "text" ELSE "audioStreamEnd"

\* C27: every accepted browser frame gives exactly one upstream envelope of
\* the matching kind: audio input for a binary frame, text input with the
\* text as it came for {type:"text", text: string}, end of audio stream for
\* {type:"stop_audio"}.  Once the setup envelope is sent, the number of
\* messages sent upstream is one plus the number of accepted frames; before
\* that no frame is accepted.
C27_OneEnvelopePerAccepted ==
  /\ upOut = <<>> => Accepted = <<>>
  /\ upOut # <<>> =>
       /\ upOut[1].kind = "setup"
       /\ Len(upOut) = 1 + Len(Accepted)
       /\ \A i \in DOMAIN Accepted :
            /\ upOut[i + 1].kind = MatchingKind(Accepted[i])
            /\ upOut[i + 1].text = Accepted[i].text
            /\ Accepted[i].isBinary =>
                 upOut[i + 1].mimeType = INPUT_MIME
                 /\ fromBase64(upOut[i + 1].data) = Accepted[i].bytes

\* A text frame and a frame of no known type were taken in READY: two
\* messages went upstream, the setup and one text input.
C27_Witness ==
  /\ vertexReady
  /\ downIn = <<TextFrame(TRUE, "text", TRUE, "hi"), TextFrame(TRUE, "", FALSE, "")>>
  /\ Len(upOut) = 2 /\ upOut[2].kind = "text" /\ upOut[2].text = "hi"

\* The translatable elements of the parts of a message, in order: the text
\* of a part, then its inline payload.
RECURSIVE PartElements(_)
PartElements(parts) ==
  IF parts = <<>> THEN <<>>
  ELSE LET p == Head(parts)
       IN (IF p.text # "" THEN <<[type |-> "ai_text", text |-> p.text, data |-> <<>>]>>
                          ELSE <<>>)
          \o (IF p.inline # "none" /\ p.data # <<>>
                THEN <<[type |-> "audio", text |-> "", data |-> p.data]>> ELSE <<>>)
          \o PartElements(Tail(parts))
NothingTranslatable(m) ==
  /\ m.inputTx = "" /\ m.outputTx = "" /\ ~m.interrupted /\ ~m.turnComplete
  /\ PartElements(m.parts) = <<>>
IsPartEv(e) == EventClass(e) = "content"

\* C28: one event per translatable element and no more.  Of the events the
\* browser gets for one parsed, non-error message that is not an
\* acknowledgment, those of the content class are exactly one `ai_text` per
\* part with non-empty text and one `audio` per part with an inline payload,
\* part after part, the `ai_text` of a part before its `audio`; and a
\* message with no translatable element gives no event at all.
C28_OneEventPerElement ==
  [][(HandledPlainMsg /\ ~upIn'[Len(upIn')].msg.setupComplete) =>
       LET m == upIn'[Len(upIn')].msg
           ev == SubSeq(clientOut', Len(clientOut) + 1, Len(clientOut'))
           content == SelectSeq(ev, IsPartEv)
           els == IF ReadsModelTurn(m) THEN PartElements(m.parts) ELSE <<>>
       IN /\ Len(content) = Len(els)
          /\ \A i \in DOMAIN els :
               /\ content[i].type = els[i].type
               /\ content[i].text = els[i].text
               /\ content[i].data = els[i].data
          /\ NothingTranslatable(m) => ev = <<>>]_vars

\* One part with text and payload gave `ai_text` then `audio`.
C28_Witness ==
  /\ Len(upIn) = 2
  /\ upIn[2].msg = BothPartMsg /\ upIn[2].open
  /\ Len(clientOut) = 3
  /\ clientOut[2].type = "ai_text" /\ clientOut[2].text = "hello"
  /\ clientOut[3].type = "audio" /\ clientOut[3].data = QUJD

\* C29: every `ready` event the browser received names the model that the
\* setup envelope of the session named, and its outputRate is 24000.
C29_ReadyNamesSetupModel ==
  \A i \in DOMAIN clientOut :
    clientOut[i].type = "ready" =>
      /\ upOut # <<>> /\ upOut[1].kind = "setup"
      /\ clientOut[i].model = upOut[1].model
      /\ clientOut[i].outputRate = 24000

\* The session got `ready` for the discovered model it had sent in its setup
\* envelope, after the cache had been replaced by a listing with another
\* result.
C29_Witness ==
  /\ envModel = ""
  /\ Len(clientOut) = 1 /\ clientOut[1].type = "ready"
  /\ clientOut[1].model = FlashLiveModel
  /\ upOut[1].model = FlashLiveModel
  /\ cached.chosen # FlashLiveModel
  /\ cached.at > call["conn"].data.at

\* What the connection handler of part_000 has to go by once
\* refreshModelCache has returned: the configured model, else the model
\* chosen in the snapshot it was handed, else nothing.
Resolved == call["conn"].pc = "returned" /\ pc # "await"
ConfiguredOrChosen ==
  IF envModel # "" THEN envModel ELSE call["conn"].data.chosen
NothingToUse ==
  /\ envModel = ""
  /\ \/ call["conn"].data.error # NoError
     \/ pickLiveModel(call["conn"].data.models) = NoModel

\* The resolution itself, common to both statements of C30: the handler
\* goes on to connect exactly when there is a model to use, and the setup
\* envelope names the configured model if there is one, else the chosen one.
ResolutionRule ==
  Resolved =>
    /\ pc = "failed" <=> NothingToUse
    /\ pc = "wired" <=> ConfiguredOrChosen # NoModel
    /\ upOut # <<>> => upOut[1].model = ConfiguredOrChosen

\* C30 as stated: a configured model overrides the discovered one, otherwise
\* the chosen model of the cache is used; with neither, the browser has
\* received exactly one `error` event, its connection is closed or closing
\* and no upstream connection was created.
C30_ModelResolution ==
  /\ ResolutionRule
  /\ (Resolved /\ pc = "failed") =>
       /\ Len(clientOut) = 1 /\ clientOut[1].type = "error"
       /\ clientState # "OPEN"
       /\ upState = "NONE" /\ upOut = <<>>

\* C30 as amended: the same resolution; with no model to use no upstream
\* connection is created, the browser connection is closed or closing, and
\* the browser has received exactly one `error` event unless it had closed
\* while the model listing was awaited, in which case it has received none.
C30_ModelResolutionIfOpen ==
  /\ ResolutionRule
  /\ (Resolved /\ pc = "failed") =>
       /\ Len(clientOut) = (IF closeMissed THEN 0 ELSE 1)
       /\ \A i \in DOMAIN clientOut : clientOut[i].type = "error"
       /\ clientCloses = (IF closeMissed THEN 0 ELSE 1)
       /\ clientState # "OPEN"
       /\ upState = "NONE" /\ upOut = <<>>

\* No model is configured, the listing answered without a Live-capable
\* model, and the open browser was told once and closed.
C30_Witness ==
  /\ pc = "failed" /\ envModel = "" /\ ~closeMissed
  /\ call["conn"].pc = "returned"
  /\ call["conn"].data.error = NoError /\ call["conn"].data.models # <<>>
  /\ Len(clientOut) = 1 /\ clientOut[1].type = "error"
  /\ clientState = "CLOSED" /\ upState = "NONE"

\* The place of an event type in the order of one message.
OrderRank(e) ==
  CASE e.type = "transcript" -> 1
    [] e.type = "ai_transcript" -> 2
    [] e.type \in {"ai_text", "audio"} -> 3
    [] e.type = "interrupted" -> 4
    [] e.type = "turn_complete" -> 5
    [] OTHER -> 0

\* C31: within the events the browser gets for one upstream message the
\* order is fixed: `transcript`, then `ai_transcript`, then the events of the
\* parts in array order (the `ai_text` of a part before its `audio`), then
\* `interrupted`, then `turn_complete`; each of the four single events at
\* most once.
C31_FixedOrderInMessage ==
  [][(HandledPlainMsg /\ ~upIn'[Len(upIn')].msg.setupComplete) =>
       LET m == upIn'[Len(upIn')].msg
           ev == SubSeq(clientOut', Len(clientOut) + 1, Len(clientOut'))
           parts == SelectSeq(ev, IsPartEv)
       IN /\ \A i, j \in DOMAIN ev :
               i < j => /\ OrderRank(ev[i]) > 0
                        /\ OrderRank(ev[i]) <= OrderRank(ev[j])
                        /\ OrderRank(ev[i]) = OrderRank(ev[j]) => IsPartEv(ev[i])
          /\ parts # <<>> =>
               /\ Len(parts) = Len(PartElements(m.parts))
               /\ \A i \in DOMAIN parts :
                    /\ parts[i].type = PartElements(m.parts)[i].type
                    /\ parts[i].text = PartElements(m.parts)[i].text]_vars

\* One message with every element gave seven events in the fixed order.
C31_Witness ==
  /\ Len(upIn) = 2 /\ upIn[2].msg = FullMsg /\ upIn[2].open
  /\ [i \in 1..Len(clientOut) |-> clientOut[i].type] =
       <<"ready", "transcript", "ai_transcript", "ai_text", "audio", "ai_text",
         "interrupted", "turn_complete">>
  /\ clientOut[4].text = "hello" /\ clientOut[6].text = "ok"

\* C32: the acknowledgment consumes its whole message.  For a parsed,
\* non-error message carrying setupComplete the browser gets exactly one
\* event, `ready`, whatever server content the message also carries.
C32_AckConsumesMessage ==
  [][(HandledPlainMsg /\ upIn'[Len(upIn')].msg.setupComplete) =>
       /\ Len(clientOut') = Len(clientOut) + 1
       /\ clientOut'[Len(clientOut')].type = "ready"
       /\ vertexReady']_vars

\* A message with setupComplete and transcripts, parts and markers was
\* handled and gave `ready` alone.
C32_Witness ==
  /\ Len(upIn) = 2 /\ upIn[2].msg = AckContentMsg /\ upIn[2].open
  /\ AckContentMsg.parts # <<>> /\ AckContentMsg.turnComplete
  /\ Len(clientOut) = 2 /\ clientOut[2].type = "ready"

\* The handshake was rejected with an HTTP response and the bridge is done
\* with that response in this step: its body ended, or the handshake was
\* aborted because the browser left.
HandshakeRejected == upState = "RESPONDING" /\ upState' # "RESPONDING"
RejectionPhase == upState \in {"RESPONDING", "REJECTED"}
ReportsResponse(e) ==
  \E r \in Responses :
    /\ IsHandshakeErrorEv(e)
    /\ e.code = r.status
    /\ Len(e.raw) <= BodyCap
    /\ e.raw = IF Len(r.body) <= BodyCap THEN r.body ELSE SubSeq(r.body, 1, BodyCap)

\* C33 as stated: when the handshake is rejected with an HTTP response the
\* browser receives one `error` event naming the status and at most the
\* first 2000 characters of the body, its connection is then closed, and the
\* session never becomes READY.
C33_RejectionReported ==
  [][/\ HandshakeRejected =>
          /\ Len(clientOut') = Len(clientOut) + 1
          /\ ReportsResponse(clientOut'[Len(clientOut')])
          /\ clientState' # "OPEN"
     /\ RejectionPhase => ~vertexReady' /\ upState' \notin {"OPEN", "CONNECTING"}]_vars

\* C33 as amended: when the body of the response has ended the bridge sends
\* that one `error` event and closes the browser connection; the browser
\* receives the event if its socket is open at that moment, and nothing if
\* it closed before (while the credential or the response body was awaited);
\* in either case the browser connection is not open afterwards and the
\* session never becomes READY.
C33_RejectionReportedIfOpen ==
  [][/\ HandshakeRejected =>
          /\ IF clientState = "OPEN" /\ upState' = "REJECTED"
               THEN /\ Len(clientOut') = Len(clientOut) + 1
                    /\ ReportsResponse(clientOut'[Len(clientOut')])
                    /\ clientCloses' = clientCloses + 1
               ELSE clientOut' = clientOut /\ clientCloses' = clientCloses
          /\ clientState' # "OPEN"
     /\ RejectionPhase => ~vertexReady' /\ upState' \notin {"OPEN", "CONNECTING"}]_vars

\* A 403 with a body one character over the cap was reported with the
\* first 2000 characters, and the browser connection has closed.
C33_Witness ==
  /\ Len(clientOut) = 1 /\ IsHandshakeErrorEv(clientOut[1])
  /\ clientOut[1].code = 403
  /\ Len(clientOut[1].raw) = BodyCap /\ clientOut[1].raw # LongBody
  /\ clientState = "CLOSED" /\ ~vertexReady

\* A terminal event has occurred in the session: the browser socket closed
\* or failed, or the upstream socket failed, closed or had its handshake
\* rejected.
TerminalEventSeen ==
  \/ clientState # "OPEN"
  \/ upState \in {"REJECTED", "ABORTING", "ERRORED", "CLOSING", "CLOSED"}

\* C34: the close cascade terminates with both legs closed.  From any
\* terminal event on, the handlers it triggers close the other leg, the
\* bridge's close of the browser socket takes effect at most once, and the
\* session comes to rest with the browser socket and the upstream socket
\* both closed.
C34_CascadeEndsClosed ==
  TerminalEventSeen ~> (BothClosed /\ clientCloses <= 1)

\* Caller c enters refreshModelCache in this step.
Enters(c) == call[c].pc # "listing" /\ call'[c] # call[c]
\* C35: refreshModelCache issues no listing request and returns the current
\* snapshot unchanged exactly when that snapshot has a chosen model and is
\* less than the cache lifetime old; otherwise it issues a listing request,
\* and the answer to that request replaces the snapshot, whatever the
\* answer is.
C35_ListsExactlyWhenNotFresh ==
  [][\A c \in Callers :
       /\ Enters(c) =>
            IF cached.chosen # NoModel /\ clock - cached.at < CacheLifetime
              THEN /\ listed' = listed /\ cached' = cached
                   /\ call'[c].pc = "returned" /\ call'[c].data = cached
              ELSE /\ listed' = Append(listed, clock) /\ cached' = cached
                   /\ call'[c].pc = "listing" /\ call'[c].now = clock
       /\ (call[c].pc = "listing" /\ call'[c].pc # "listing") =>
            /\ cached'.at = call[c].now
            /\ call'[c].data = cached'
            /\ listed' = listed
       /\ listed' # listed => \E d \in Callers : Enters(d)]_vars

\* A snapshot listed at minute 0 with a chosen model served one caller
\* without a listing, and at minute 10, exactly the lifetime, a caller
\* started the second listing.
C35_Witness ==
  /\ listed = <<0, CacheLifetime>> /\ clock = CacheLifetime
  /\ cached.chosen # NoModel /\ cached.at = 0
  /\ \E c \in Callers : call[c].pc = "returned" /\ ~call[c].listedItself
                          /\ call[c].data = cached
  /\ \E c \in Callers : call[c].pc = "listing" /\ call[c].now = CacheLifetime

\* C36: the timestamp of the cache never decreases: every replacement of the
\* snapshot carries a timestamp at least as large as the one it replaces.
C36_TimestampNeverDecreases ==
  [][cached'.at >= cached.at]_vars

\* The names of the Live-capable models of a list, and the first of them in
\* the order of the list.
LiveNames(models) == {models[i].name : i \in {j \in DOMAIN models : models[j].live}}
FirstLiveName(models) ==
  LET idx == {j \in DOMAIN models : models[j].live}
  IN models[CHOOSE i \in idx : \A j \in idx : i <= j].name

C38_SendExactlyWhenOpen ==
  [][UsesSendSafe =>
       /\ ~sentNotOpen'
       /\ clientState # "OPEN" => clientOut' = clientOut
       /\ Len(upIn') > Len(upIn) /\ clientState = "OPEN"
            => clientOut' = clientOut \o UpstreamEvents(upIn'[Len(upIn')].msg)]_vars

\* A message that yields events was handled through wsSendSafe after the
\* browser socket had left OPEN: the handler completed and nothing was sent.
C38_Witness ==
  /\ UsesSendSafe
  /\ ~sentNotOpen
  /\ \E i \in DOMAIN upIn : ~upIn[i].open /\ UpstreamEvents(upIn[i].msg) # <<>>

====
